---------------------------- MODULE Spec2Model ----------------------------
(***************************************************************************)
(* Model of torcontactinfo.py: the class-level field table                  *)
(* TorContactInfoParser._supported_fields_parsers, the two field            *)
(* evaluators _parse_string_value and _parse_email_value, the statement by  *)
(* statement execution of TorContactInfoParser.parse by one or two threads  *)
(* that share the class-level table, and the scan driver cmd_scan.          *)
(*                                                                          *)
(* A Python str is a sequence of one-character strings.  A Python value    *)
(* that is either None or a str is a record with a kind field.             *)
(***************************************************************************)
EXTENDS Naturals, Integers, Sequences, FiniteSets, TLC

VARIABLES
    _supported_fields_parsers, \* the class attribute, shared by every call
    frame,                     \* per thread: the locals of its parse call
    calls,                     \* per thread: parse calls made so far
    scan                       \* the locals of cmd_scan

vars == <<_supported_fields_parsers, frame, calls, scan>>

-----------------------------------------------------------------------------
(* Bounds of the model *)

\* words per generated contact line
MaxWords == 3
\* parse calls the API user makes one after the other
MaxCalls == 2
\* length of a generated e-mail-like raw value
MaxLen == 4
\* relay records in a fetched document
MaxRelays == 2

-----------------------------------------------------------------------------
(* Python values *)

None == [kind |-> "None"]
Str(s) == [kind |-> "str", s |-> s]
Dict(d) == [kind |-> "dict", d |-> d]
ValueError(field_name, text) == [kind |-> "ValueError", field |-> field_name, text |-> text]
EmptyDict == [k \in {} |-> None]

Lower == {"a","b","c","d","e","f","g","h","i","j","k","l","m",
          "n","o","p","q","r","s","t","u","v","w","x","y","z"}
Upper == {"A","B","C","D","E","F","G","H","I","J","K","L","M",
          "N","O","P","Q","R","S","T","U","V","W","X","Y","Z"}
Digit == {"0","1","2","3","4","5","6","7","8","9"}

-----------------------------------------------------------------------------
(* str methods used by the parser *)

\* sub in s
Contains(s, sub) ==
    \E i \in 1..(Len(s) + 1) :
        /\ i + Len(sub) - 1 <= Len(s)
        /\ SubSeq(s, i, i + Len(sub) - 1) = sub

\* s.split(sep) for a one-character sep: the pieces between the separators,
\* empty pieces kept
Split(s, sep) ==
    LET at == {i \in 1..Len(s) : s[i] = sep}
        n == Cardinality(at)
        Kth(k) == CHOOSE i \in at : Cardinality({j \in at : j < i}) = k - 1
    IN  [k \in 1..(n + 1) |->
            SubSeq(s, IF k = 1 THEN 1 ELSE Kth(k - 1) + 1,
                      IF k = n + 1 THEN Len(s) ELSE Kth(k) - 1)]

\* s.split(sep, 1): cut once, at the first separator
SplitOnce(s, sep) ==
    LET at == {i \in 1..Len(s) : s[i] = sep}
    IN  IF at = {} THEN <<s>>
        ELSE LET i == CHOOSE x \in at : \A y \in at : x <= y
             IN  <<SubSeq(s, 1, i - 1), SubSeq(s, i + 1, Len(s))>>

\* s.replace(old, new): left to right, occurrences do not overlap
RECURSIVE Replace(_, _, _)
Replace(s, old, new) ==
    IF Len(s) < Len(old) THEN s
    ELSE IF SubSeq(s, 1, Len(old)) = old
         THEN new \o Replace(SubSeq(s, Len(old) + 1, Len(s)), old, new)
         ELSE <<s[1]>> \o Replace(Tail(s), old, new)

\* the characters of a valid_chars pattern, one character class with or
\* without a trailing '+'
CharClass(valid_chars) ==
    CASE valid_chars = "[_%/:a-zA-Z0-9.-]+" -> Lower \cup Upper \cup Digit \cup {"_", "%", "/", ":", ".", "-"}
      [] valid_chars = "[adinrsu-]+" -> {"a", "d", "i", "n", "r", "s", "u", "-"}
      [] valid_chars = "[12]+" -> {"1", "2"}
      [] valid_chars = "[a-zA-Z0-9]+" -> Lower \cup Upper \cup Digit
      [] valid_chars = "[a-zA-Z0-9_]+" -> Lower \cup Upper \cup Digit \cup {"_"}
      [] valid_chars = "[a-z0-9]+" -> Lower \cup Digit
      [] valid_chars = "[a-zA-Z0-9.-]+" -> Lower \cup Upper \cup Digit \cup {".", "-"}
      [] valid_chars = "[A-Z0-9.]+" -> Upper \cup Digit \cup {"."}
      [] valid_chars = "[0-9]+" -> Digit
      [] valid_chars = "[unmetered0-9]+" -> Digit \cup {"u", "n", "m", "e", "t", "r", "d"}
      [] valid_chars = "[a-zA-Z0-9_-]+" -> Lower \cup Upper \cup Digit \cup {"_", "-"}
      [] valid_chars = "[a-z-]+" -> Lower \cup {"-"}
      [] valid_chars = "[yn]" -> {"y", "n"}
      [] valid_chars = "[A-Za-z0-9/.]+" -> Lower \cup Upper \cup Digit \cup {"/", "."}
      [] valid_chars = "[a-z]+" -> Lower
      [] valid_chars = "[a-zA-Z-]" -> Lower \cup Upper \cup {"-"}
      [] valid_chars = "[a-z,]" -> Lower \cup {","}

\* re.search(valid_chars, value): some character of the value is in the class
Search(valid_chars, value) ==
    \E i \in 1..Len(value) : value[i] \in CharClass(valid_chars)

-----------------------------------------------------------------------------
(* The field evaluators *)

\* a mutation: the lower bound taken as exclusive
ParseStringValueMinExclusive(value, min_length, max_length, valid_chars, raise_exception, field_name) ==
    IF Len(value) <= min_length
    THEN IF raise_exception THEN ValueError(field_name, "is too short") ELSE None
    ELSE IF Len(value) > max_length
    THEN IF raise_exception THEN ValueError(field_name, "is too long") ELSE None
    ELSE IF valid_chars # "*" /\ ~Search(valid_chars, value)
    THEN IF raise_exception
         THEN ValueError(field_name, "doesn't match valid chars restrictions")
         ELSE None
    ELSE Str(value)

\* the value returned, or the ValueError raised
_parse_string_value(value, min_length, max_length, valid_chars, raise_exception, field_name) ==
    IF Len(value) < min_length
    THEN IF raise_exception THEN ValueError(field_name, "is too short") ELSE None
    ELSE IF Len(value) > max_length
    THEN IF raise_exception THEN ValueError(field_name, "is too long") ELSE None
    ELSE IF valid_chars # "*" /\ ~Search(valid_chars, value)
    THEN IF raise_exception
         THEN ValueError(field_name, "doesn't match valid chars restrictions")
         ELSE None
    ELSE Str(value)

\* a mutation: only the first marker is replaced
ParseEmailValueFirstOnly(value) ==
    IF Len(value) > 0 /\ Contains(value, <<"[", "]">>)
    THEN LET i == CHOOSE x \in 1..(Len(value) - 1) :
                    /\ SubSeq(value, x, x + 1) = <<"[", "]">>
                    /\ \A y \in 1..(x - 1) : SubSeq(value, y, y + 1) # <<"[", "]">>
         IN  Str(SubSeq(value, 1, i - 1) \o <<"@">> \o SubSeq(value, i + 2, Len(value)))
    ELSE Str(value)

_parse_email_value(value) ==
    IF Len(value) > 0
    THEN Str(Replace(value, <<"[", "]">>, <<"@">>))
    ELSE Str(value)

-----------------------------------------------------------------------------
(* The class-level field table as the class body builds it *)

InitialFieldsParsers ==
    <<"e","m","a","i","l">> :> [fn |-> "_parse_email_value"] @@
    <<"u","r","l">> :>
        [fn |-> "_parse_string_value",
         args |-> [min_length |-> 4, max_length |-> 399, valid_chars |-> "[_%/:a-zA-Z0-9.-]+"]] @@
    <<"p","r","o","o","f">> :>
        [fn |-> "_parse_string_value",
         args |-> [min_length |-> 7, max_length |-> 7, valid_chars |-> "[adinrsu-]+"]] @@
    <<"c","i","i","s","s","v","e","r","s","i","o","n">> :>
        [fn |-> "_parse_string_value",
         args |-> [min_length |-> 1, max_length |-> 1, valid_chars |-> "[12]+"]] @@
    <<"p","g","p">> :>
        [fn |-> "_parse_string_value",
         args |-> [min_length |-> 40, max_length |-> 40, valid_chars |-> "[a-zA-Z0-9]+"]] @@
    <<"a","b","u","s","e">> :> [fn |-> "_parse_email_value"] @@
    <<"k","e","y","b","a","s","e">> :>
        [fn |-> "_parse_string_value",
         args |-> [min_length |-> 0, max_length |-> 50, valid_chars |-> "[a-zA-Z0-9]+"]] @@
    <<"t","w","i","t","t","e","r">> :>
        [fn |-> "_parse_string_value",
         args |-> [min_length |-> 1, max_length |-> 15, valid_chars |-> "[a-zA-Z0-9_]+"]] @@
    <<"m","a","s","t","o","d","o","n">> :>
        [fn |-> "_parse_string_value",
         args |-> [min_length |-> 0, max_length |-> 254, valid_chars |-> "*"]] @@
    <<"m","a","t","r","i","x">> :>
        [fn |-> "_parse_string_value",
         args |-> [min_length |-> 0, max_length |-> 254, valid_chars |-> "*"]] @@
    <<"x","m","p","p">> :> [fn |-> "_parse_email_value"] @@
    <<"o","t","r","3">> :>
        [fn |-> "_parse_string_value",
         args |-> [min_length |-> 40, max_length |-> 40, valid_chars |-> "[a-z0-9]+"]] @@
    <<"h","o","s","t","e","r">> :>
        [fn |-> "_parse_string_value",
         args |-> [min_length |-> 0, max_length |-> 254, valid_chars |-> "[a-zA-Z0-9.-]+"]] @@
    <<"c","o","s","t">> :>
        [fn |-> "_parse_string_value",
         args |-> [min_length |-> 0, max_length |-> 13, valid_chars |-> "[A-Z0-9.]+"]] @@
    <<"u","p","l","i","n","k","b","w">> :>
        [fn |-> "_parse_string_value",
         args |-> [min_length |-> 0, max_length |-> 7, valid_chars |-> "[0-9]+"]] @@
    <<"t","r","a","f","f","i","c","a","c","c","t">> :>
        [fn |-> "_parse_string_value",
         args |-> [min_length |-> 0, max_length |-> 7, valid_chars |-> "[unmetered0-9]+"]] @@
    <<"m","e","m","o","r","y">> :>
        [fn |-> "_parse_string_value",
         args |-> [min_length |-> 0, max_length |-> 10, valid_chars |-> "[0-9]+"]] @@
    <<"c","p","u">> :>
        [fn |-> "_parse_string_value",
         args |-> [min_length |-> 0, max_length |-> 50, valid_chars |-> "[a-zA-Z0-9_-]+"]] @@
    <<"v","i","r","t","u","a","l","i","z","a","t","i","o","n">> :>
        [fn |-> "_parse_string_value",
         args |-> [min_length |-> 0, max_length |-> 15, valid_chars |-> "[a-z-]+"]] @@
    <<"d","o","n","a","t","i","o","n","u","r","l">> :>
        [fn |-> "_parse_string_value",
         args |-> [min_length |-> 0, max_length |-> 254, valid_chars |-> "*"]] @@
    <<"b","t","c">> :>
        [fn |-> "_parse_string_value",
         args |-> [min_length |-> 26, max_length |-> 99, valid_chars |-> "[a-zA-Z0-9]+"]] @@
    <<"z","e","c">> :>
        [fn |-> "_parse_string_value",
         args |-> [min_length |-> 0, max_length |-> 95, valid_chars |-> "[a-zA-Z0-9]+"]] @@
    <<"x","m","r">> :>
        [fn |-> "_parse_string_value",
         args |-> [min_length |-> 0, max_length |-> 99, valid_chars |-> "[a-zA-Z0-9]+"]] @@
    <<"o","f","f","l","i","n","e","m","a","s","t","e","r","k","e","y">> :>
        [fn |-> "_parse_string_value",
         args |-> [min_length |-> 1, max_length |-> 1, valid_chars |-> "[yn]"]] @@
    <<"s","i","g","n","i","n","g","k","e","y","l","i","f","e","t","i","m","e">> :>
        [fn |-> "_parse_string_value",
         args |-> [min_length |-> 0, max_length |-> 6, valid_chars |-> "[0-9]+"]] @@
    <<"s","a","n","d","b","o","x">> :>
        [fn |-> "_parse_string_value",
         args |-> [min_length |-> 1, max_length |-> 2, valid_chars |-> "[yn]"]] @@
    <<"o","s">> :>
        [fn |-> "_parse_string_value",
         args |-> [min_length |-> 0, max_length |-> 20, valid_chars |-> "[A-Za-z0-9/.]+"]] @@
    <<"t","l","s">> :>
        [fn |-> "_parse_string_value",
         args |-> [min_length |-> 0, max_length |-> 14, valid_chars |-> "[a-z]+"]] @@
    <<"a","e","s","n","i">> :>
        [fn |-> "_parse_string_value",
         args |-> [min_length |-> 1, max_length |-> 1, valid_chars |-> "[yn]"]] @@
    <<"a","u","t","o","u","p","d","a","t","e">> :>
        [fn |-> "_parse_string_value",
         args |-> [min_length |-> 1, max_length |-> 1, valid_chars |-> "[yn]"]] @@
    <<"c","o","n","f","m","g","m","t">> :>
        [fn |-> "_parse_string_value",
         args |-> [min_length |-> 1, max_length |-> 15, valid_chars |-> "[a-zA-Z-]"]] @@
    <<"d","n","s","l","o","c","a","t","i","o","n">> :>
        [fn |-> "_parse_string_value",
         args |-> [min_length |-> 5, max_length |-> 100, valid_chars |-> "[a-z,]"]] @@
    <<"d","n","s","q","n","a","m","e">> :>
        [fn |-> "_parse_string_value",
         args |-> [min_length |-> 1, max_length |-> 1, valid_chars |-> "[yn]"]] @@
    <<"d","n","s","s","e","c">> :>
        [fn |-> "_parse_string_value",
         args |-> [min_length |-> 1, max_length |-> 1, valid_chars |-> "[yn]"]] @@
    <<"d","n","s","l","o","c","a","l","r","o","o","t","z","o","n","e">> :>
        [fn |-> "_parse_string_value",
         args |-> [min_length |-> 1, max_length |-> 1, valid_chars |-> "[yn]"]]

\* callable(field_parser): the entry is the function itself, not a dict
callable(field_parser) == "args" \notin DOMAIN field_parser

\* the thread of the caller and a second thread that calls parse as well
Threads == {"main", "worker"}
MainThread == "main"

(* locals of a parse call that is not running *)
Idle == [pc |-> "idle", contact |-> <<>>, raise_exception_on_invalid_value |-> FALSE, value |-> None,
         result |-> EmptyDict, parts |-> <<>>, i |-> 0,
         name |-> <<>>, data |-> <<>>, ret |-> None]

\* the call parse(contact, raise_exception_on_invalid_value) is entered
Enter(contact, raise_exception_on_invalid_value) ==
    [Idle EXCEPT !.pc = "L330", !.contact = contact, !.raise_exception_on_invalid_value = raise_exception_on_invalid_value,
                 !.value = Str(contact)]

\* the call leaves with a return value or an exception; its locals die
Leave(f, pc, ret) ==
    [Idle EXCEPT !.pc = pc, !.contact = f.contact, !.raise_exception_on_invalid_value =
                     f.raise_exception_on_invalid_value, !.ret = ret]

-----------------------------------------------------------------------------
(* TorContactInfoParser.parse, statement by statement, run by thread t *)

\* lines 330-334: the mandatory-field test, then result = {} and the split
L330(t) ==
    /\ frame[t].pc = "L330"
    /\ LET f == frame[t]
       IN  frame' = [frame EXCEPT ![t] =
             IF ~Contains(f.value.s, <<"c","i","i","s","s","v","e","r","s","i","o","n",":">>)
             THEN Leave(f, "returned", None)
             ELSE [f EXCEPT !.pc = "L335", !.result = EmptyDict,
                            !.parts = Split(f.value.s, " "), !.i = 1]]
    /\ UNCHANGED <<_supported_fields_parsers, calls, scan>>

\* lines 335-346 and 353-355: the next word, up to the call of a callable
\* entry or to the first write into a dict entry's args
L335(t) ==
    /\ frame[t].pc = "L335"
    /\ LET f == frame[t]
           p == f.parts[f.i]
           field_parts == SplitOnce(p, ":")
           name == field_parts[1]
           data == field_parts[2]
           field_parser == _supported_fields_parsers[name]
       IN  frame' = [frame EXCEPT ![t] =
             IF f.i > Len(f.parts) THEN Leave(f, "returned", Dict(f.result))
             ELSE IF Len(field_parts) <= 1 THEN [f EXCEPT !.i = @ + 1]
             ELSE IF name \notin DOMAIN _supported_fields_parsers
                  THEN [f EXCEPT !.i = @ + 1, !.name = name, !.data = data]
             ELSE IF field_parser = None
                  THEN [f EXCEPT !.i = @ + 1, !.name = name, !.data = data,
                                 !.result = (name :> Str(data)) @@ @]
             ELSE IF callable(field_parser)
                  THEN [f EXCEPT !.i = @ + 1, !.name = name, !.data = data,
                                 !.value = _parse_email_value(data),
                                 !.result = (name :> _parse_email_value(data)) @@ @]
             ELSE [f EXCEPT !.pc = "L348", !.name = name, !.data = data]]
    /\ UNCHANGED <<_supported_fields_parsers, calls, scan>>

\* field_parser["args"][key] = v, on the shared entry of the field
SetArg(name, key, v) ==
    [_supported_fields_parsers EXCEPT ![name].args = (key :> v) @@ @]

\* line 348
L348(t) ==
    /\ frame[t].pc = "L348"
    /\ _supported_fields_parsers' = SetArg(frame[t].name, "field_name", frame[t].name)
    /\ frame' = [frame EXCEPT ![t].pc = "L349"]
    /\ UNCHANGED <<calls, scan>>

\* line 349
L349(t) ==
    /\ frame[t].pc = "L349"
    /\ _supported_fields_parsers' = SetArg(frame[t].name, "value", frame[t].data)
    /\ frame' = [frame EXCEPT ![t].pc = "L350"]
    /\ UNCHANGED <<calls, scan>>

\* line 350
L350(t) ==
    /\ frame[t].pc = "L350"
    /\ _supported_fields_parsers' =
            SetArg(frame[t].name, "raise_exception", frame[t].raise_exception_on_invalid_value)
    /\ frame' = [frame EXCEPT ![t].pc = "L352"]
    /\ UNCHANGED <<calls, scan>>

\* field_parser["fn"](self, **field_parser["args"]): the keyword arguments
\* are whatever the shared args dict holds when the call is made
CallFn(field_parser) ==
    LET args == field_parser.args
    IN  _parse_string_value(args.value, args.min_length, args.max_length,
                            args.valid_chars, args.raise_exception, args.field_name)

\* lines 352-353: the call through the shared args, then result[name] = value,
\* or the ValueError leaves parse
L352(t) ==
    /\ frame[t].pc = "L352"
    /\ LET f == frame[t]
           value == CallFn(_supported_fields_parsers[f.name])
       IN  frame' = [frame EXCEPT ![t] =
             IF value.kind = "ValueError" THEN Leave(f, "raised", value)
             ELSE [f EXCEPT !.pc = "L335", !.i = @ + 1, !.value = value,
                            !.result = (f.name :> value) @@ @]]
    /\ UNCHANGED <<_supported_fields_parsers, calls, scan>>

ParseStep(t) == L330(t) \/ L335(t) \/ L348(t) \/ L349(t) \/ L350(t) \/ L352(t)


-----------------------------------------------------------------------------
(* parse run alone: lines 327-355 executed without interruption, each       *)
(* field evaluated with the arguments of its own token                      *)

\* the rule of a registered field applied to one raw value
Evaluate(name, data, raise_exception) ==
    LET field_parser == InitialFieldsParsers[name]
    IN  IF callable(field_parser) THEN _parse_email_value(data)
        ELSE _parse_string_value(data, field_parser.args.min_length,
                                 field_parser.args.max_length,
                                 field_parser.args.valid_chars,
                                 raise_exception, name)

RECURSIVE ParseLoop(_, _, _, _)
ParseLoop(parts, i, result, raise_exception) ==
    IF i > Len(parts) THEN Dict(result)
    ELSE LET field_parts == SplitOnce(parts[i], ":")
             name == field_parts[1]
             value == Evaluate(name, field_parts[2], raise_exception)
         IN  IF Len(field_parts) <= 1 \/ name \notin DOMAIN InitialFieldsParsers
             THEN ParseLoop(parts, i + 1, result, raise_exception)
             ELSE IF value.kind = "ValueError" THEN value
             ELSE ParseLoop(parts, i + 1, (name :> value) @@ result, raise_exception)

ParseAlone(value, raise_exception) ==
    IF ~Contains(value, <<"c","i","i","s","s","v","e","r","s","i","o","n",":">>)
    THEN None
    ELSE ParseLoop(Split(value, " "), 1, EmptyDict, raise_exception)

-----------------------------------------------------------------------------
(* Contact lines the callers pass *)

ciissversion == <<"c","i","i","s","s","v","e","r","s","i","o","n">>
email == <<"e","m","a","i","l">>

VersionWord == <<"c","i","i","s","s","v","e","r","s","i","o","n",":","2">>

Words == {
    VersionWord,
    <<"u","r","l",":","e","x","a","m","p","l","e",".","c","o","m">>,
    <<"u","r","l",":","e","x","a","m","p","l","e","2",".","c","o","m">>,
    <<"u","r","l",":","a","b","c">>,
    <<"e","m","a","i","l",":","1","1","1">>,
    <<"e","m","a","i","l",":","t","e","s","t","[","]","e","x","a","m","p","l","e",".","c","o","m">>,
    <<"x","c","i","i","s","s","v","e","r","s","i","o","n",":","2">>,
    <<"e","m","a","i","l",":","c","i","i","s","s","v","e","r","s","i","o","n",":","2">>,
    <<"M","r",".","E","x","a","m","p","l","e">> }

\* " ".join(ws)
RECURSIVE Join(_)
Join(ws) ==
    IF Len(ws) = 0 THEN <<>>
    ELSE IF Len(ws) = 1 THEN ws[1]
    ELSE ws[1] \o <<" ">> \o Join(Tail(ws))

Lines == {Join(ws) : ws \in UNION {[1..k -> Words] : k \in 0..MaxWords}}

-----------------------------------------------------------------------------
(* The API user: parse calls one after the other on the main thread *)

Call(t) ==
    /\ frame[t].pc = "idle"
    /\ calls[t] < MaxCalls
    /\ \E contact \in Lines, raise_exception_on_invalid_value \in BOOLEAN :
           frame' = [frame EXCEPT ![t] = Enter(contact, raise_exception_on_invalid_value)]
    /\ calls' = [calls EXCEPT ![t] = @ + 1]
    /\ UNCHANGED <<_supported_fields_parsers, scan>>

\* the caller has the return value or the exception
Return(t) ==
    /\ frame[t].pc \in {"returned", "raised"}
    /\ scan.pc = "idle"
    /\ frame' = [frame EXCEPT ![t] = Idle]
    /\ UNCHANGED <<_supported_fields_parsers, calls, scan>>

ScanIdle == [pc |-> "idle", relays |-> <<>>, r |-> 0, json |-> FALSE,
             pretty |-> FALSE, out |-> <<>>]

Init ==
    /\ _supported_fields_parsers = InitialFieldsParsers
    /\ frame = [t \in Threads |-> Idle]
    /\ calls = [t \in Threads |-> 0]
    /\ scan = ScanIdle

Next == Call(MainThread) \/ ParseStep(MainThread) \/ Return(MainThread)

Spec == Init /\ [][Next]_vars


-----------------------------------------------------------------------------
(* Vocabulary of the claims *)

\* the members of seq at the indices in K, in order
KeepAt(seq, K) ==
    LET Kth(k) == CHOOSE i \in K : Cardinality({j \in K : j < i}) = k - 1
    IN  [k \in 1..Cardinality(K) |-> seq[Kth(k)]]

\* the tokens of a line: its words that hold a colon, each cut at its first
\* colon into <<name, rawValue>>
Tokens(line) ==
    LET words == Split(line, " ")
        cut == [k \in 1..Len(words) |-> SplitOnce(words[k], ":")]
    IN  KeepAt(cut, {k \in 1..Len(words) : Len(cut[k]) = 2})

Occurrences(toks, name) == {k \in 1..Len(toks) : toks[k][1] = name}
HasVersionToken(toks) == Occurrences(toks, ciissversion) # {}
FirstAt(toks, name) ==
    CHOOSE k \in Occurrences(toks, name) : \A j \in Occurrences(toks, name) : k <= j
FirstData(toks, name) == toks[FirstAt(toks, name)][2]

EmailLike == {name \in DOMAIN InitialFieldsParsers : callable(InitialFieldsParsers[name])}
Bounded == DOMAIN InitialFieldsParsers \ EmailLike

Done(t) == frame[t].pc \in {"returned", "raised"}
Strict(t) == frame[t].raise_exception_on_invalid_value

\* the violation of a Bounded rule by a raw value, "" when there is none
Violation(name, data) ==
    LET args == InitialFieldsParsers[name].args
    IN  IF Len(data) < args.min_length THEN "is too short"
        ELSE IF Len(data) > args.max_length THEN "is too long"
        ELSE IF /\ args.valid_chars # "*"
                /\ \A i \in 1..Len(data) : data[i] \notin CharClass(args.valid_chars)
             THEN "doesn't match valid chars restrictions"
        ELSE ""

\* the Bounded fields of a line whose first value violates the field's rule
ViolatingFields(toks) ==
    {name \in Bounded : /\ Occurrences(toks, name) # {}
                        /\ Violation(name, FirstData(toks, name)) # ""}

\* the line without the words that repeat the field name of an earlier word
FirstOccurrencesOnly(line) ==
    LET words == Split(line, " ")
        cut == [k \in 1..Len(words) |-> SplitOnce(words[k], ":")]
        Repeats(k) == /\ Len(cut[k]) = 2
                      /\ \E j \in 1..(k - 1) : Len(cut[j]) = 2 /\ cut[j][1] = cut[k][1]
    IN  Join(KeepAt(words, {k \in 1..Len(words) : ~Repeats(k)}))

-----------------------------------------------------------------------------
(* C1: in default mode, on a line with the version token, a registered     *)
(* field that occurs twice or more is recorded with the outcome of its     *)
(* first occurrence.                                                        *)
FirstOccurrenceWins ==
    \A t \in Threads :
        LET f == frame[t]
            toks == Tokens(f.contact)
        IN  (f.pc = "returned" /\ ~Strict(t) /\ HasVersionToken(toks)) =>
                /\ f.ret.kind = "dict"
                /\ \A name \in DOMAIN InitialFieldsParsers :
                       Cardinality(Occurrences(toks, name)) >= 2 =>
                           /\ name \in DOMAIN f.ret.d
                           /\ f.ret.d[name] = Evaluate(name, FirstData(toks, name), FALSE)

(* C2: a line none of whose tokens is named ciissversion yields None.       *)
NoVersionTokenNoResult ==
    \A t \in Threads :
        (Done(t) /\ ~HasVersionToken(Tokens(frame[t].contact))) =>
            (frame[t].pc = "returned" /\ frame[t].ret = None)

(* C4: on a line with the version token and a Bounded field whose first    *)
(* value violates its rule, strict mode raises the ValueError of that      *)
(* field and violation (of the earliest such field of the line), and       *)
(* default mode returns a mapping that records every such field as None.   *)
StrictRaisesDefaultRecordsNone ==
    \A t \in Threads :
        LET f == frame[t]
            toks == Tokens(f.contact)
            bad == ViolatingFields(toks)
            first == CHOOSE n \in bad : \A m \in bad : FirstAt(toks, n) <= FirstAt(toks, m)
        IN  (Done(t) /\ HasVersionToken(toks) /\ bad # {}) =>
                IF Strict(t)
                THEN /\ f.pc = "raised"
                     /\ f.ret = ValueError(first, Violation(first, FirstData(toks, first)))
                ELSE /\ f.pc = "returned"
                     /\ f.ret.kind = "dict"
                     /\ \A name \in bad : name \in DOMAIN f.ret.d /\ f.ret.d[name] = None

\* a raw value with neither the marker nor an at sign
NoSeparator(data) ==
    /\ ~Contains(data, <<"[", "]">>)
    /\ \A i \in 1..Len(data) : data[i] # "@"

\* where a raw value local[]domain holds its one marker, 0 when the value
\* is not of that shape (a dot in the domain, no at sign, a local part)
MarkerAt(data) ==
    LET at == {i \in 2..(Len(data) - 2) : data[i] = "[" /\ data[i + 1] = "]"}
    IN  IF /\ Cardinality(at) = 1
           /\ \A i \in 1..Len(data) : data[i] = "@" => FALSE
           /\ \E i \in at : \E j \in (i + 2)..Len(data) : data[j] = "."
        THEN CHOOSE i \in at : TRUE
        ELSE 0

(* C5: in default mode an email value that is no address is recorded as    *)
(* None, and an obfuscated address local[]domain as local@domain.          *)
EmailShapeChecked ==
    \A t \in Threads :
        LET f == frame[t]
            toks == Tokens(f.contact)
            data == FirstData(toks, email)
            m == MarkerAt(data)
        IN  (/\ f.pc = "returned" /\ ~Strict(t) /\ HasVersionToken(toks)
             /\ Cardinality(Occurrences(toks, email)) = 1) =>
                /\ f.ret.kind = "dict"
                /\ email \in DOMAIN f.ret.d
                /\ NoSeparator(data) => f.ret.d[email] = None
                /\ m # 0 => f.ret.d[email] =
                        Str(SubSeq(data, 1, m - 1) \o <<"@">> \o SubSeq(data, m + 2, Len(data)))

(* C8: occurrences of a field name after its first are never evaluated:    *)
(* the outcome of parse on a line is its outcome on the line without them. *)
LaterOccurrencesIgnored ==
    \A t \in Threads :
        Done(t) =>
            frame[t].ret = ParseAlone(FirstOccurrencesOnly(frame[t].contact), Strict(t))

(* C9: parse leaves the class-level field table as the class body built it. *)
RegistryNeverMutated == _supported_fields_parsers = InitialFieldsParsers


-----------------------------------------------------------------------------
(* Two parse calls on two threads of one process *)

ThreadLines == {Join(<<VersionWord, w>>) : w \in Words}

InitThreads ==
    /\ _supported_fields_parsers = InitialFieldsParsers
    /\ frame \in [Threads -> {Enter(contact, raise_exception_on_invalid_value) :
                                contact \in ThreadLines,
                                raise_exception_on_invalid_value \in BOOLEAN}]
    /\ calls = [t \in Threads |-> 1]
    /\ scan = ScanIdle

NextThreads == \E t \in Threads : ParseStep(t)

SpecThreads == InitThreads /\ [][NextThreads]_vars

(* C3: under every interleaving, each of two concurrent calls ends with    *)
(* the result or the error it has when run alone on its own arguments.     *)
EachCallAsIfAlone ==
    \A t \in Threads :
        Done(t) => frame[t].ret = ParseAlone(frame[t].contact, Strict(t))

-----------------------------------------------------------------------------
(* cmd_scan *)

ScanContacts == {
    Join(<<VersionWord, <<"u","r","l",":","e","x","a","m","p","l","e",".","c","o","m">> >>),
    Join(<<VersionWord, <<"u","r","l",":","a","b","c">> >>),
    <<"x","c","i","i","s","s","v","e","r","s","i","o","n",":","2">>,
    <<"M","r",".","E","x","a","m","p","l","e">> }

\* a relay record of the fetched document, with or without a contact
Relays ==
    {[nickname |-> "relay"]}
    \cup {[nickname |-> "relay", contact |-> c] :
            c \in {None, Str(<<>>)} \cup {Str(s) : s \in ScanContacts}}

\* r.get("contact", None)
GetContact(r) == IF "contact" \in DOMAIN r THEN r.contact ELSE None

\* lines 382-386: the parser is made and the document fetched
CmdScan ==
    /\ scan.pc = "idle"
    /\ frame[MainThread].pc = "idle"
    /\ \E data \in UNION {[1..n -> Relays] : n \in 0..MaxRelays},
          json \in BOOLEAN, pretty \in BOOLEAN :
           scan' = [scan EXCEPT !.pc = "L387", !.relays = data, !.r = 1,
                                !.json = json, !.pretty = pretty]
    /\ UNCHANGED <<_supported_fields_parsers, frame, calls>>

\* lines 387-390: the next record, skipped when it has no contact, else
\* parse(contact, False) is entered
ScanNext ==
    /\ scan.pc = "L387"
    /\ LET contact == GetContact(scan.relays[scan.r])
       IN  IF scan.r > Len(scan.relays)
           THEN /\ scan' = [scan EXCEPT !.pc = "completed"]
                /\ UNCHANGED <<frame, calls>>
           ELSE IF contact = None \/ contact.s = <<>>
           THEN /\ scan' = [scan EXCEPT !.r = @ + 1]
                /\ UNCHANGED <<frame, calls>>
           ELSE /\ scan' = [scan EXCEPT !.pc = "L390"]
                /\ frame' = [frame EXCEPT ![MainThread] = Enter(contact.s, FALSE)]
                /\ calls' = [calls EXCEPT ![MainThread] = @ + 1]
    /\ UNCHANGED _supported_fields_parsers

\* lines 391-396: len(result), which raises TypeError on None, and the print
ScanResult ==
    /\ scan.pc = "L390"
    /\ frame[MainThread].pc = "returned"
    /\ LET result == frame[MainThread].ret
           shown == [via |-> IF scan.pretty THEN "rprint" ELSE "print",
                     form |-> IF ~scan.json THEN "dict"
                              ELSE IF scan.pretty THEN "json.dumps indent=4"
                              ELSE "json.dumps",
                     result |-> result.d]
       IN  scan' = IF result = None THEN [scan EXCEPT !.pc = "TypeError"]
                   ELSE IF Cardinality(DOMAIN result.d) > 0
                        THEN [scan EXCEPT !.pc = "L387", !.r = @ + 1,
                                          !.out = Append(@, shown)]
                   ELSE [scan EXCEPT !.pc = "L387", !.r = @ + 1]
    /\ frame' = [frame EXCEPT ![MainThread] = Idle]
    /\ UNCHANGED <<_supported_fields_parsers, calls>>

NextScan == CmdScan \/ ScanNext \/ ScanResult \/ ParseStep(MainThread)

SpecScan == Init /\ [][NextScan]_vars

(* C10: cmd_scan never raises, whatever the fetched records, and when it   *)
(* has completed it has called parse once for each record with a           *)
(* non-empty contact.                                                       *)
ScanCompletes ==
    /\ scan.pc # "TypeError"
    /\ scan.pc = "completed" =>
           calls[MainThread] =
               Cardinality({k \in 1..Len(scan.relays) :
                              /\ GetContact(scan.relays[k]) # None
                              /\ GetContact(scan.relays[k]).s # <<>>})

-----------------------------------------------------------------------------
(* One field evaluated through parse: every e-mail-like field on every raw *)
(* value over a small alphabet, every Bounded field at its length bounds   *)

EmailAlphabet == {"[", "]", "@", ":"}
EmailValues == UNION {[1..n -> EmailAlphabet] : n \in 0..MaxLen}

Repeat(c, n) == [i \in 1..n |-> c]

\* one character of the field's class and one of no class
SampleChars(name) ==
    LET valid_chars == InitialFieldsParsers[name].args.valid_chars
    IN  {"!"} \cup (IF valid_chars = "*" THEN {"a"}
                    ELSE {CHOOSE c \in CharClass(valid_chars) : TRUE})

BoundaryLengths(name) ==
    LET args == InitialFieldsParsers[name].args
    IN  {args.min_length - 1, args.min_length, args.max_length, args.max_length + 1}
            \cap Nat

FieldLine(name, data) ==
    IF name = ciissversion THEN name \o <<":">> \o data
    ELSE VersionWord \o <<" ">> \o name \o <<":">> \o data

FieldLines ==
    {FieldLine(name, data) : name \in EmailLike, data \in EmailValues}
    \cup UNION {{FieldLine(name, Repeat(c, n)) :
                    n \in BoundaryLengths(name), c \in SampleChars(name)} :
                name \in Bounded}

InitFields ==
    /\ _supported_fields_parsers = InitialFieldsParsers
    /\ \E contact \in FieldLines, raise_exception_on_invalid_value \in BOOLEAN :
           frame = [t \in Threads |->
                      IF t = MainThread
                      THEN Enter(contact, raise_exception_on_invalid_value)
                      ELSE Idle]
    /\ calls = [t \in Threads |-> IF t = MainThread THEN 1 ELSE 0]
    /\ scan = ScanIdle

NextFields == ParseStep(MainThread)

SpecFields == InitFields /\ [][NextFields]_vars

\* the last token of the line of thread t: the field under evaluation
FieldToken(t) ==
    LET toks == Tokens(frame[t].contact) IN toks[Len(toks)]

\* a raw value with "@" in place of each "[" that a "]" follows, and
\* without that "]"
MarkersReplaced(data) ==
    LET Closes(i) == i > 1 /\ data[i - 1] = "[" /\ data[i] = "]"
        Opens(i) == i < Len(data) /\ data[i] = "[" /\ data[i + 1] = "]"
    IN  KeepAt([i \in 1..Len(data) |-> IF Opens(i) THEN "@" ELSE data[i]],
               {i \in 1..Len(data) : ~Closes(i)})

Accepted(t) ==
    /\ frame[t].pc = "returned"
    /\ frame[t].ret.kind = "dict"
    /\ FieldToken(t)[1] \in DOMAIN frame[t].ret.d
    /\ frame[t].ret.d[FieldToken(t)[1]] = Str(FieldToken(t)[2])

\* the field of thread t was rejected: the error in strict mode, None in
\* default mode
Rejected(t, text) ==
    IF Strict(t)
    THEN frame[t].pc = "raised" /\ frame[t].ret = ValueError(FieldToken(t)[1], text)
    ELSE /\ frame[t].pc = "returned"
         /\ frame[t].ret.kind = "dict"
         /\ FieldToken(t)[1] \in DOMAIN frame[t].ret.d
         /\ frame[t].ret.d[FieldToken(t)[1]] = None

\* every character of the value is of the field's class
OfClass(name, data) ==
    LET valid_chars == InitialFieldsParsers[name].args.valid_chars
    IN  valid_chars = "*" \/ \A i \in 1..Len(data) : data[i] \in CharClass(valid_chars)

(* C7 as stated: for every Bounded field and every value of characters of  *)
(* its class, a value of length minLength is accepted, the empty value of  *)
(* a field with minLength 0 included, one character shorter is rejected,   *)
(* a value of length maxLength is accepted, one longer is rejected.        *)
BoundsInclusive ==
    \A t \in Threads :
        LET name == FieldToken(t)[1]
            data == FieldToken(t)[2]
            args == InitialFieldsParsers[name].args
        IN  (Done(t) /\ name \in Bounded /\ OfClass(name, data)) =>
                /\ Len(data) = args.min_length => Accepted(t)
                /\ Len(data) = args.max_length => Accepted(t)
                /\ Len(data) = args.min_length - 1 => Rejected(t, "is too short")
                /\ Len(data) = args.max_length + 1 => Rejected(t, "is too long")

(* C7 amended: the same, for a value of length minLength that is not       *)
(* empty or whose field allows any character; the empty value of a field   *)
(* with minLength 0 and a character class is rejected for its characters.  *)
BoundsInclusiveNonEmpty ==
    \A t \in Threads :
        LET name == FieldToken(t)[1]
            data == FieldToken(t)[2]
            args == InitialFieldsParsers[name].args
        IN  (Done(t) /\ name \in Bounded /\ OfClass(name, data)) =>
                /\ (Len(data) = args.min_length /\ (data # <<>> \/ args.valid_chars = "*"))
                       => Accepted(t)
                /\ (Len(data) = args.min_length /\ data = <<>> /\ args.valid_chars # "*")
                       => Rejected(t, "doesn't match valid chars restrictions")
                /\ Len(data) = args.max_length => Accepted(t)
                /\ Len(data) = args.min_length - 1 => Rejected(t, "is too short")
                /\ Len(data) = args.max_length + 1 => Rejected(t, "is too long")

\* a url of 399 characters, the field's maxLength, has been accepted in
\* strict mode
BoundsInclusiveWitness ==
    \E t \in Threads :
        /\ Strict(t)
        /\ FieldToken(t)[1] = <<"u", "r", "l">>
        /\ Len(FieldToken(t)[2]) = InitialFieldsParsers[<<"u", "r", "l">>].args.max_length
        /\ OfClass(<<"u", "r", "l">>, FieldToken(t)[2])
        /\ Accepted(t)

=============================================================================
